---- MODULE Spec2Model ----
(***************************************************************************)
(* Model of the remote-control backend (src/server.js): the session        *)
(* registry `sessions`, the WebSocket handlers (connection, message,       *)
(* close, error), the idle-session sweep, the SIGINT handler and the       *)
(* robotjs pointer capability they drive.                                  *)
(*                                                                         *)
(* Node runs every handler to completion on one thread, so each handler    *)
(* is one atomic action.  Session records are JavaScript objects shared    *)
(* by reference: `clientSession[c]` is the object created for connection   *)
(* c, and `sessions` maps a key to the connection whose object is stored   *)
(* under that key.                                                         *)
(***************************************************************************)
EXTENDS Integers, Sequences, FiniteSets, TLC

\* ---------------------------------------------------------------- bounds
MaxConns == 2          \* connections accepted in one run
MaxTicks == 2          \* clock advances in one run
MaxMoves == 2          \* move commands applied to the pointer in one run

\* ------------------------------------------------------------- constants
SESSION_TIMEOUT == 30 * 60 * 1000

\* The clock advances in steps of the timeout, so that inactivities below,
\* equal to and above SESSION_TIMEOUT occur.
TickMs == SESSION_TIMEOUT

Conns == 1..MaxConns

VARIABLES
  sessions,          \* Map: key -> connection whose session object is stored
  clientSession,     \* the session object created for each accepted connection
  ws,                \* per connection: [sessionId, readyState, readable]
  sessionIdCounter,
  connectedClients,
  robot,             \* TRUE iff robotjs was loaded
  mousePos,          \* robot.getMousePos()
  screenSize,        \* robot.getScreenSize()
  now,               \* Date.now()
  closed,            \* SIGINT received: the server accepts no more connections
  origin,            \* when the display was last configured: the pointer position
                     \* and the number of moves applied until then
  moves,             \* per connection: number and sum of the deltas of the moves
                     \* it applied since then (recorded by SpecPointer only)
  robotCalls,        \* the capability calls made by the latest handler
  lastEvent          \* the latest event handled

vars == <<sessions, clientSession, ws, sessionIdCounter, connectedClients, robot,
          mousePos, screenSize, now, closed, origin, moves, robotCalls, lastEvent>>

\* ------------------------------------------------------------ generateSessionId
generateSessionId(counter, t) ==
  "session_" \o ToString(counter) \o "_" \o ToString(t)

\* req.socket.remoteAddress of the c-th connection; two connections may
\* come from the same address.
remoteAddress(c) == IF c = 1 THEN "10.0.0.1" ELSE "10.0.0.2"

\* ------------------------------------------------------------ Map helpers
has(m, k) == k \in DOMAIN m

delete(m, k) == [x \in DOMAIN m \ {k} |-> m[x]]

set(m, k, v) == [x \in DOMAIN m \cup {k} |-> IF x = k THEN v ELSE m[x]]

\* ------------------------------------------------------------ pointer
Min(a, b) == IF a < b THEN a ELSE b
Max(a, b) == IF a > b THEN a ELSE b

\* mutant: the lower clamp is forgotten
newCoord_noFloor(limit, current, delta) == Min(limit - 1, current + delta)

\* Math.max(0, Math.min(limit - 1, current + delta))
newCoord(limit, current, delta) == Max(0, Min(limit - 1, current + delta))

moveMouse(x, y) == [op |-> "moveMouse", x |-> x, y |-> y, button |-> ""]
mouseClick(button) == [op |-> "mouseClick", x |-> 0, y |-> 0, button |-> button]
scrollMouse(x, y) == [op |-> "scrollMouse", x |-> x, y |-> y, button |-> ""]

\* mutant: a delta below 0 is taken as 0
orZero_nonNegative(d) == IF d = <<>> THEN 0 ELSE Max(0, d[1])

\* data.deltaX || 0 : a missing field (<<>>) and 0 both give 0
orZero(d) == IF d = <<>> THEN 0 ELSE d[1]

\* ------------------------------------------------------------ inbound payloads
\* kind: "invalid" (JSON.parse throws), "null" (the JSON text null), "object".
\* type "" stands for a payload without a type field; sessionId "" for a
\* missing or empty sessionId; deltaX/deltaY <<>> for a missing field.
Payload(kind, type, dx, dy, sid) ==
  [kind |-> kind, type |-> type, deltaX |-> dx, deltaY |-> dy, sessionId |-> sid]

MoveDeltas == {<<10, 0>>, <<-4, 0>>, <<10, -5>>, <<-1000, 0>>, <<0, 1000>>}

ScrollDeltas == {<<<<>>, <<-3>>>>, <<<<2>>, <<>>>>}

\* ids a client may ask for: a display id and one that has the shape of a
\* generated id
ClientIds == {"client_abcd", generateSessionId(2, 0)}

MoveMsg(dx, dy) == Payload("object", "move", <<dx>>, <<dy>>, "")

MoveMsgs == {MoveMsg(d[1], d[2]) : d \in MoveDeltas}

OtherMsgs ==
  {Payload("invalid", "", <<>>, <<>>, ""), Payload("null", "", <<>>, <<>>, ""),
   Payload("object", "", <<>>, <<>>, ""), Payload("object", "ping", <<>>, <<>>, ""),
   Payload("object", "click", <<>>, <<>>, ""),
   Payload("object", "rightClick", <<>>, <<>>, "")}
  \cup {Payload("object", "scroll", d[1], d[2], "") : d \in ScrollDeltas}
  \cup {Payload("object", "setSessionId", <<>>, <<>>, s) : s \in ClientIds \cup {""}}

\* ------------------------------------------------------------ displays
SmallDisplay ==
  [size |-> [width |-> 3, height |-> 2], pos |-> [x |-> 1, y |-> 1]]

Displays ==
  {[size |-> [width |-> 1920, height |-> 1080], pos |-> [x |-> 500, y |-> 500]],
   [size |-> [width |-> 1920, height |-> 1080], pos |-> [x |-> 5, y |-> 500]],
   [size |-> [width |-> 1, height |-> 1], pos |-> [x |-> 0, y |-> 0]],
   SmallDisplay}

NoDisplay == [size |-> [width |-> 0, height |-> 0], pos |-> [x |-> 0, y |-> 0]]

NoMoves == [n |-> 0, x |-> 0, y |-> 0]

TotalMoves == LET RECURSIVE Sum(_)
                  Sum(c) == IF c = 0 THEN 0 ELSE moves[c].n + Sum(c - 1)
              IN Sum(sessionIdCounter)

Event(ev, c, kind, type) == [ev |-> ev, c |-> c, kind |-> kind, type |-> type]

\* ------------------------------------------------------------ Init
Init ==
  /\ sessions = <<>>
  /\ clientSession = <<>>
  /\ ws = <<>>
  /\ sessionIdCounter = 0
  /\ connectedClients = 0
  /\ robot \in BOOLEAN
  /\ \E d \in (IF robot THEN {SmallDisplay} ELSE {NoDisplay}) :
       /\ mousePos = d.pos
       /\ screenSize = d.size
  /\ origin = [pos |-> mousePos, moved |-> 0]
  /\ now = 0
  /\ closed = FALSE
  /\ moves = <<>>
  /\ robotCalls = <<>>
  /\ lastEvent = Event("start", 0, "", "")

\* ------------------------------------------------------------ wss.on('connection')
Connection ==
  /\ ~closed
  /\ sessionIdCounter < MaxConns
  /\ LET c == sessionIdCounter + 1
         sessionId == generateSessionId(c, now)
     IN /\ connectedClients' = connectedClients + 1
        /\ sessionIdCounter' = c
        /\ clientSession' = set(clientSession, c,
                                [id |-> sessionId, ip |-> remoteAddress(c),
                                 connectedAt |-> now, lastActivity |-> now])
        /\ sessions' = set(sessions, sessionId, c)
        /\ ws' = set(ws, c, [sessionId |-> sessionId, readyState |-> "OPEN",
                             readable |-> TRUE])
        /\ moves' = set(moves, c, NoMoves)
        /\ lastEvent' = Event("connection", c, "", "")
  /\ robotCalls' = <<>>
  /\ UNCHANGED <<robot, mousePos, screenSize, now, closed, origin>>

\* ------------------------------------------------------------ ws.on('message')
\* mutant: the activity of every record is set
touch_all(cs, owner, t) == [o \in DOMAIN cs |-> [cs[o] EXCEPT !.lastActivity = t]]

\* mutant: activity is never recorded
touch_never(cs, owner, t) == cs

\* mutant: the activity time is recorded in seconds, not milliseconds
touch_seconds(cs, owner, t) == [cs EXCEPT ![owner].lastActivity = t \div 1000]

\* session.lastActivity = new Date()
touch(cs, owner, t) == [cs EXCEPT ![owner].lastActivity = t]

\* mutant: the new key is set first and the old key deleted afterwards
rekey_setThenDelete(m, oldKey, newKey, owner) == delete(set(m, newKey, owner), oldKey)

\* mutant: the old key is not deleted
rekey_keepOld(m, oldKey, newKey, owner) == set(m, newKey, owner)

\* sessions.delete(ws.sessionId); sessions.set(data.sessionId, session)
rekey(m, oldKey, newKey, owner) == set(delete(m, oldKey), newKey, owner)

\* mutant: the id field is left as it was
renamed_noId(cs, session, newId) == cs

\* mutant: the rename builds a fresh session object
renamed_fresh(cs, session, newId) ==
  [cs EXCEPT ![session] = [id |-> newId, ip |-> @.ip, connectedAt |-> now,
                           lastActivity |-> now]]

\* session.id = data.sessionId
renamed(cs, session, newId) == [cs EXCEPT ![session].id = newId]

\* mutant: a missing sessionId is taken like any other
truthy_always(sessionId) == TRUE

\* the test of data.sessionId in `if (data.sessionId && session)`
truthy(sessionId) == sessionId # ""

\* case 'setSessionId'
setSessionId(c, data, session, touched) ==
  /\ IF truthy(data.sessionId)
     THEN /\ clientSession' = renamed(touched, session, data.sessionId)
          /\ sessions' = rekey(sessions, ws[c].sessionId, data.sessionId, session)
          /\ ws' = [ws EXCEPT ![c].sessionId = data.sessionId]
     ELSE /\ clientSession' = touched
          /\ UNCHANGED <<sessions, ws>>
  /\ robotCalls' = <<>>
  /\ UNCHANGED mousePos

\* mutant: the screen size is read once, on the 1920x1080 display, and cached
getScreenSize_cached == [width |-> 1920, height |-> 1080]

\* mutant: the position is read once per display configuration and reused
getMousePos_stale == origin.pos

\* robot.getScreenSize(), robot.getMousePos()
getScreenSize == screenSize

getMousePos == mousePos

\* case 'move'
move(c, data, touched) ==
  LET newX == newCoord(getScreenSize.width, getMousePos.x, data.deltaX[1])
      newY == newCoord(getScreenSize.height, getMousePos.y, data.deltaY[1])
  IN /\ mousePos' = [x |-> newX, y |-> newY]
     /\ robotCalls' = <<moveMouse(newX, newY)>>
     /\ clientSession' = touched
     /\ UNCHANGED <<sessions, ws>>

\* mutant: the call is put off to a later turn of the event loop
clickOrScroll_deferred(data, touched) ==
  /\ robotCalls' = <<>>
  /\ clientSession' = touched
  /\ UNCHANGED <<sessions, ws, mousePos>>

\* case 'click', case 'rightClick', case 'scroll'
clickOrScroll(data, touched) ==
  /\ robotCalls' = CASE data.type = "click" -> <<mouseClick("left")>>
                     [] data.type = "rightClick" -> <<mouseClick("right")>>
                     [] data.type = "scroll" ->
                          <<scrollMouse(orZero(data.deltaX), orZero(data.deltaY))>>
  /\ clientSession' = touched
  /\ UNCHANGED <<sessions, ws, mousePos>>

\* mutant: the capability is taken to be loaded
robotLoaded_always == TRUE

\* the test of `if (!robot)`
robotLoaded == robot

\* mutant: a payload that is not JSON is taken for an empty object
parses_anything(data) == TRUE

\* JSON.parse(message) returns
parses(data) == data.kind # "invalid"

\* A message is delivered while the socket is still read: on an open
\* connection, and on one the server has closed whose close handshake is
\* not finished; never after a transport error.
OnMessage(c, data) ==
  /\ c \in DOMAIN ws
  /\ ws[c].readyState \in {"OPEN", "CLOSING"}
  /\ ws[c].readable
  /\ lastEvent' = Event("message", c, data.kind, data.type)
  /\ UNCHANGED <<sessionIdCounter, connectedClients, robot, screenSize, now, closed,
                 origin>>
  /\ IF ~parses(data) \/ ~has(sessions, ws[c].sessionId)
     THEN \* JSON.parse throws, or sessions.get(ws.sessionId) is undefined
          /\ robotCalls' = <<>>
          /\ UNCHANGED <<sessions, clientSession, ws, mousePos>>
     ELSE LET session == sessions[ws[c].sessionId]
              touched == touch(clientSession, session, now)
          IN IF \/ data.kind = "null"      \* data.type throws, caught
                \/ ~robotLoaded            \* return
                \/ data.type \notin {"setSessionId", "move", "click",
                                     "rightClick", "scroll"}
             THEN /\ clientSession' = touched
                  /\ robotCalls' = <<>>
                  /\ UNCHANGED <<sessions, ws, mousePos>>
             ELSE CASE data.type = "setSessionId" ->
                         setSessionId(c, data, session, touched)
                    [] data.type = "move" -> move(c, data, touched)
                    [] OTHER -> clickOrScroll(data, touched)

\* ------------------------------------------------------------ ws.on('close')
\* mutant: the count is left as it is
decrement_never(n) == n

\* connectedClients--
decrement(n) == n - 1

\* mutant: the close handler leaves the record in the registry
removeSession_none(m, key) == m

\* mutant: a key that is absent takes some other entry with it
removeSession_other(m, key) ==
  IF has(m, key) THEN delete(m, key)
  ELSE IF DOMAIN m = {} THEN m ELSE delete(m, CHOOSE k \in DOMAIN m : TRUE)

\* if (session) sessions.delete(ws.sessionId)
removeSession(m, key) == IF has(m, key) THEN delete(m, key) ELSE m

OnClose(c) ==
  /\ c \in DOMAIN ws
  /\ ws[c].readyState \in {"OPEN", "CLOSING"}
  /\ connectedClients' = decrement(connectedClients)
  /\ sessions' = removeSession(sessions, ws[c].sessionId)
  /\ ws' = [ws EXCEPT ![c].readyState = "CLOSED", ![c].readable = FALSE]
  /\ robotCalls' = <<>>
  \* 'Session ended' is logged when the session is found
  /\ lastEvent' = Event("close", c, "",
                        IF has(sessions, ws[c].sessionId) THEN "ended" ELSE "")
  /\ UNCHANGED <<clientSession, sessionIdCounter, robot, mousePos, screenSize, now,
                 closed, origin, moves>>

\* ------------------------------------------------------------ ws.on('error')
\* After a transport error the socket is no longer read and the close
\* event follows.
OnError(c) ==
  /\ c \in DOMAIN ws
  /\ ws[c].readyState \in {"OPEN", "CLOSING"}
  /\ ws[c].readable
  /\ sessions' = IF ws[c].sessionId # "" /\ has(sessions, ws[c].sessionId)
                 THEN delete(sessions, ws[c].sessionId)
                 ELSE sessions
  /\ ws' = [ws EXCEPT ![c].readyState = "CLOSING", ![c].readable = FALSE]
  /\ robotCalls' = <<>>
  /\ lastEvent' = Event("error", c, "", "")
  /\ UNCHANGED <<clientSession, sessionIdCounter, connectedClients, robot, mousePos,
                 screenSize, now, closed, origin, moves>>

\* ------------------------------------------------------------ setInterval cleanup
inactiveTime(session, t) == t - session.lastActivity

\* mutant: a session is evicted as soon as its inactivity reaches the timeout
expired_atTimeout(m, cs, t) ==
  {k \in DOMAIN m : inactiveTime(cs[m[k]], t) >= SESSION_TIMEOUT}

expired(m, cs, t) == {k \in DOMAIN m : inactiveTime(cs[m[k]], t) > SESSION_TIMEOUT}

\* mutant: no socket is closed
closeAll_none(w, cs) == w

\* session.ws.close() for every expired session whose socket is open
closeAll(w, cs) ==
  [c \in DOMAIN w |-> IF c \in cs /\ w[c].readyState = "OPEN"
                      THEN [w[c] EXCEPT !.readyState = "CLOSING"]
                      ELSE w[c]]

Cleanup ==
  LET gone == expired(sessions, clientSession, now)
  IN /\ ws' = closeAll(ws, {sessions[k] : k \in gone})
     /\ sessions' = [k \in DOMAIN sessions \ gone |-> sessions[k]]
     /\ robotCalls' = <<>>
     /\ lastEvent' = Event("cleanup", 0, "", "")
     /\ UNCHANGED <<clientSession, sessionIdCounter, connectedClients, robot, mousePos,
                    screenSize, now, closed, origin, moves>>

\* ------------------------------------------------------------ process.on('SIGINT')
SIGINT ==
  /\ ~closed
  /\ closed' = TRUE
  /\ ws' = closeAll(ws, DOMAIN ws)
  /\ robotCalls' = <<>>
  /\ lastEvent' = Event("SIGINT", 0, "", "")
  /\ UNCHANGED <<sessions, clientSession, sessionIdCounter, connectedClients, robot,
                 mousePos, screenSize, now, origin, moves>>

\* ------------------------------------------------------------ environment
\* Date.now() advances
Tick ==
  /\ now < MaxTicks * TickMs
  /\ now' = now + TickMs
  /\ robotCalls' = <<>>
  /\ lastEvent' = Event("tick", 0, "", "")
  /\ UNCHANGED <<sessions, clientSession, ws, sessionIdCounter, connectedClients, robot,
                 mousePos, screenSize, closed, origin, moves>>

Next ==
  \/ Connection
  \/ \E c \in Conns, data \in OtherMsgs \cup {MoveMsg(1, -1)} :
       OnMessage(c, data) /\ UNCHANGED moves
  \/ \E c \in Conns : OnClose(c)
  \/ \E c \in Conns : OnError(c)
  \/ Cleanup
  \/ SIGINT
  \/ Tick

Spec == Init /\ [][Next]_vars

\* The close event of a socket that is open or closing is eventually
\* delivered: the peer answers the close frame or the socket times out.
SpecFair == Spec /\ \A c \in Conns : WF_vars(OnClose(c))

\* ------------------------------------------------------------ pointer specification
\* The pointer on its own: the server with the capability loaded, on each of
\* the displays, receiving move commands from its connections while the
\* display configuration may change.
InitPointer ==
  /\ sessions = <<>>
  /\ clientSession = <<>>
  /\ ws = <<>>
  /\ sessionIdCounter = 0
  /\ connectedClients = 0
  /\ robot = TRUE
  /\ \E d \in Displays :
       /\ mousePos = d.pos
       /\ screenSize = d.size
  /\ origin = [pos |-> mousePos, moved |-> 0]
  /\ now = 0
  /\ closed = FALSE
  /\ moves = <<>>
  /\ robotCalls = <<>>
  /\ lastEvent = Event("start", 0, "", "")

\* a move message, with the delta recorded when the move was applied
Moved(c, data) ==
  /\ origin.moved + TotalMoves < MaxMoves
  /\ OnMessage(c, data)
  /\ moves' = IF robotCalls' # <<>>
              THEN [moves EXCEPT ![c] = [n |-> @.n + 1, x |-> @.x + data.deltaX[1],
                                         y |-> @.y + data.deltaY[1]]]
              ELSE moves

\* the display configuration changes; the pointer stays where it is
DisplayChange ==
  /\ \E d \in Displays :
       /\ d.size # screenSize
       /\ screenSize' = d.size
  /\ origin' = [pos |-> mousePos, moved |-> origin.moved + TotalMoves]
  /\ moves' = [c \in DOMAIN moves |-> NoMoves]
  /\ robotCalls' = <<>>
  /\ lastEvent' = Event("display", 0, "", "")
  /\ UNCHANGED <<sessions, clientSession, ws, sessionIdCounter, connectedClients, robot,
                 mousePos, now, closed>>

NextPointer ==
  \/ Connection
  \/ \E c \in Conns, data \in MoveMsgs : Moved(c, data)
  \/ DisplayChange

SpecPointer == InitPointer /\ [][NextPointer]_vars

\* ------------------------------------------------------------ idle client
\* The runs in which the second connection never sends a message; the
\* first one sends what it likes.
NextIdle ==
  \/ Connection
  \/ \E c \in Conns \ {2}, data \in OtherMsgs \cup {MoveMsg(1, -1)} :
       OnMessage(c, data) /\ UNCHANGED moves
  \/ \E c \in Conns : OnClose(c)
  \/ \E c \in Conns : OnError(c)
  \/ Cleanup
  \/ SIGINT
  \/ Tick

SpecIdle == Init /\ [][NextIdle]_vars

\* ============================================================ claims
Clamp(v, lo, hi) == IF v < lo THEN lo ELSE IF v > hi THEN hi ELSE v

OnScreen(p, size) ==
  /\ 0 <= p.x /\ p.x <= size.width - 1
  /\ 0 <= p.y /\ p.y <= size.height - 1

Shifted(p, dx, dy) == [x |-> p.x + dx, y |-> p.y + dy]

\* the step just taken applied a move command to the pointer
MoveApplied == lastEvent.ev = "message" /\ lastEvent.type = "move" /\ robotCalls # <<>>

\* C1: no lost update. When two connections have each applied one Move
\* since the display was configured, and neither delta alone nor both
\* together leave the screen, the pointer is where both deltas take it,
\* whichever message was handled first: from (500,500) on 1920x1080,
\* Move{+10,0} and Move{-4,0} end at (506,500).
C1_NoLostUpdate ==
  \A c1, c2 \in DOMAIN moves :
    ( /\ c1 # c2
      /\ moves[c1].n = 1 /\ moves[c2].n = 1
      /\ \A c \in DOMAIN moves \ {c1, c2} : moves[c].n = 0
      /\ OnScreen(Shifted(origin.pos, moves[c1].x, moves[c1].y), screenSize)
      /\ OnScreen(Shifted(origin.pos, moves[c2].x, moves[c2].y), screenSize)
      /\ OnScreen(Shifted(origin.pos, moves[c1].x + moves[c2].x,
                          moves[c1].y + moves[c2].y), screenSize) )
    => mousePos = Shifted(origin.pos, moves[c1].x + moves[c2].x,
                          moves[c1].y + moves[c2].y)

C1_Witness ==
  /\ DOMAIN moves = {1, 2}
  /\ origin.pos = [x |-> 500, y |-> 500]
  /\ screenSize = [width |-> 1920, height |-> 1080]
  /\ moves[1] = [n |-> 1, x |-> -4, y |-> 0]
  /\ moves[2] = [n |-> 1, x |-> 10, y |-> 0]
  /\ lastEvent.c = 1
  /\ mousePos = [x |-> 506, y |-> 500]

\* C2: clamping. Whatever the pointer position before (on or off the
\* screen), the delta and the screen size, the position a Move writes is
\* within [0, width-1] x [0, height-1]; so once a Move has been applied
\* under the current display configuration the pointer is on the screen.
C2_Clamping ==
  /\ MoveApplied => /\ OnScreen(mousePos, screenSize)
                    /\ OnScreen(robotCalls[1], screenSize)
  /\ TotalMoves >= 1 => OnScreen(mousePos, screenSize)

C2_Witness ==
  /\ MoveApplied
  /\ ~OnScreen(origin.pos, screenSize)
  /\ TotalMoves = 1
  /\ mousePos = [x |-> 0, y |-> screenSize.height - 1]

\* C3: every Move sets the pointer to
\* (clamp(px + deltaX, 0, w-1), clamp(py + deltaY, 0, h-1)), px, py, w, h
\* being the position and the screen size at the time of the message.
C3_MoveExact ==
  [][ MoveApplied' =>
        LET c == lastEvent'.c
            dx == moves'[c].x - moves[c].x
            dy == moves'[c].y - moves[c].y
            newX == Clamp(mousePos.x + dx, 0, screenSize.width - 1)
            newY == Clamp(mousePos.y + dy, 0, screenSize.height - 1)
        IN /\ mousePos' = [x |-> newX, y |-> newY]
           /\ robotCalls' = <<moveMouse(newX, newY)>> ]_vars

C3_Witness ==
  /\ MoveApplied
  /\ screenSize = [width |-> 1920, height |-> 1080]
  /\ origin.pos = [x |-> 500, y |-> 500]
  /\ TotalMoves = 1
  /\ moves[lastEvent.c] = [n |-> 1, x |-> 10, y |-> -5]
  /\ mousePos = [x |-> 510, y |-> 495]

\* ------------------------------------------------------------ registry claims
SetSessionIdMsg(newId) == Payload("object", "setSessionId", <<>>, <<>>, newId)

\* the record a connection addresses: sessions.get(ws.sessionId)
Addressed(c) == sessions[ws[c].sessionId]

\* the step just taken handled a message of one of these types
Handled(types) ==
  lastEvent.ev = "message" /\ lastEvent.kind = "object" /\ lastEvent.type \in types

\* C4: a setSessionId whose newId is the key of another record of the
\* registry is refused: the registry keeps both entries as they are, the
\* connection keeps its key and every record keeps its id.
C4_CollisionRejected ==
  [][ \A c \in DOMAIN ws, newId \in ClientIds :
        ( /\ OnMessage(c, SetSessionIdMsg(newId))
          /\ has(sessions, ws[c].sessionId)
          /\ has(sessions, newId)
          /\ newId # ws[c].sessionId )
        => /\ sessions' = sessions
           /\ ws'[c].sessionId = ws[c].sessionId
           /\ \A o \in DOMAIN clientSession :
                clientSession'[o].id = clientSession[o].id ]_vars

\* C5: no two records of the registry have the same id.
C5_UniqueIds ==
  \A k1, k2 \in DOMAIN sessions :
    k1 # k2 => clientSession[sessions[k1]].id # clientSession[sessions[k2]].id

C5_Witness ==
  /\ Handled({"setSessionId"})
  /\ DOMAIN sessions = ClientIds
  /\ \A k \in DOMAIN sessions : clientSession[sessions[k]].id = k

\* C6: a message received on connection c leaves the lastActivity of the
\* records created for the other connections as it was.
C6_OwnerOnly ==
  [][ lastEvent'.ev = "message" =>
        \A o \in DOMAIN clientSession :
          o # lastEvent'.c =>
            clientSession'[o].lastActivity = clientSession[o].lastActivity ]_vars

\* C7: a sweep removes every record whose inactivity exceeds
\* SESSION_TIMEOUT and closes its connection if it is open; every other
\* record stays under its key, unmodified, and its connection is left as
\* it was.
C7_Sweep ==
  [][ lastEvent'.ev = "cleanup" =>
        \A k \in DOMAIN sessions :
          LET o == sessions[k]
          IN IF now - clientSession[o].lastActivity > SESSION_TIMEOUT
             THEN /\ ~has(sessions', k)
                  /\ ws'[o].readyState =
                       IF ws[o].readyState = "OPEN" THEN "CLOSING"
                       ELSE ws[o].readyState
             ELSE /\ has(sessions', k)
                  /\ sessions'[k] = o
                  /\ clientSession'[o] = clientSession[o]
                  /\ ws'[o] = ws[o] ]_vars

C7_Witness ==
  /\ lastEvent.ev = "cleanup"
  /\ ~closed
  /\ \E o1, o2 \in DOMAIN ws :
       /\ ws[o1].readyState = "CLOSING" /\ ws[o1].readable
       /\ ~has(sessions, ws[o1].sessionId)
       /\ now - clientSession[o1].lastActivity > SESSION_TIMEOUT
       /\ ws[o2].readyState = "OPEN"
       /\ has(sessions, ws[o2].sessionId) /\ Addressed(o2) = o2
       /\ now - clientSession[o2].lastActivity = SESSION_TIMEOUT

C9_InvalidDropped ==
  [][ (lastEvent'.ev = "message" /\ lastEvent'.kind = "invalid") =>
        /\ UNCHANGED <<sessions, clientSession, ws, mousePos, connectedClients>>
        /\ robotCalls' = <<>> ]_vars

C9_Witness ==
  /\ lastEvent.ev = "message" /\ lastEvent.kind = "invalid"
  /\ ws[lastEvent.c].readyState = "OPEN"
  /\ has(sessions, ws[lastEvent.c].sessionId)
  /\ Addressed(lastEvent.c) = lastEvent.c
  /\ clientSession[lastEvent.c].lastActivity < now

\* C10: the clock never going back, the lastActivity of a record never
\* decreases, and only the handling of a message changes it.
C10_Monotonic ==
  [][ /\ now' >= now
      /\ \A o \in DOMAIN clientSession :
           /\ clientSession'[o].lastActivity >= clientSession[o].lastActivity
           /\ clientSession'[o].lastActivity # clientSession[o].lastActivity
                => lastEvent'.ev = "message" ]_vars

C10_Witness ==
  /\ lastEvent.ev = "cleanup"
  /\ \E o \in DOMAIN clientSession :
       /\ has(sessions, ws[o].sessionId) /\ Addressed(o) = o
       /\ clientSession[o].connectedAt < clientSession[o].lastActivity
       /\ clientSession[o].lastActivity < now

\* C11: without the pointer capability a setSessionId whose newId is not in
\* use is still applied: the record moves to newId and the connection is
\* addressed by newId.
C11_RenameWithoutRobot ==
  [][ \A c \in DOMAIN ws, newId \in ClientIds :
        ( /\ ~robot
          /\ OnMessage(c, SetSessionIdMsg(newId))
          /\ has(sessions, ws[c].sessionId)
          /\ ~has(sessions, newId) )
        => /\ has(sessions', newId)
           /\ sessions'[newId] = Addressed(c)
           /\ ~has(sessions', ws[c].sessionId)
           /\ ws'[c].sessionId = newId ]_vars

\* the commands that act on the pointer
PointerTypes == {"move", "click", "rightClick", "scroll"}

\* C12: without the pointer capability a move, click, rightClick or scroll
\* calls no pointer operation and leaves the pointer where it is; the
\* connection stays as it is (open) and the registry keeps every entry.
C12_NoRobotNoOp ==
  [][ ( /\ ~robot
        /\ lastEvent'.ev = "message" /\ lastEvent'.kind = "object"
        /\ lastEvent'.type \in PointerTypes )
      => /\ robotCalls' = <<>>
         /\ UNCHANGED <<mousePos, screenSize, ws, sessions>>
         /\ \A o \in DOMAIN clientSession :
              clientSession'[o].id = clientSession[o].id ]_vars

C12_Witness ==
  /\ ~robot
  /\ Handled({"scroll"})
  /\ ws[lastEvent.c].readyState = "OPEN"
  /\ has(sessions, ws[lastEvent.c].sessionId)
  /\ Addressed(lastEvent.c) = lastEvent.c
  /\ robotCalls = <<>>

\* C13: after a setSessionId whose newId is non-empty, different from the
\* connection's current id and not in use, the registry holds the original
\* record (same connection, remote address and connection time) under
\* newId and nothing under the old id, has as many entries as before, and
\* the connection is addressed by newId.
RenameApplied ==
  \A c \in DOMAIN ws, newId \in ClientIds :
    ( /\ OnMessage(c, SetSessionIdMsg(newId))
      /\ has(sessions, ws[c].sessionId)
      /\ newId # ws[c].sessionId
      /\ ~has(sessions, newId) )
    => /\ has(sessions', newId)
       /\ sessions'[newId] = Addressed(c)
       /\ clientSession'[Addressed(c)].ip = clientSession[Addressed(c)].ip
       /\ clientSession'[Addressed(c)].connectedAt
            = clientSession[Addressed(c)].connectedAt
       /\ ~has(sessions', ws[c].sessionId)
       /\ Cardinality(DOMAIN sessions') = Cardinality(DOMAIN sessions)
       /\ ws'[c].sessionId = newId

C13_RenameSuccess == [][RenameApplied]_vars

\* C14: once the close or the error event of a connection has been handled,
\* no record of the registry refers to that connection, whatever renames
\* came before.
C14_NoRecordOfClosed ==
  \A k \in DOMAIN sessions : ws[sessions[k]].readable

\* the ids generateSessionId has returned so far
GeneratedIds ==
  {generateSessionId(n, k * TickMs) : n \in 1..sessionIdCounter, k \in 0..MaxTicks}

\* C15: accepting a connection adds exactly one record, with the remote
\* address, under an id that no record of the registry has (client-chosen
\* ids included) and that was not generated before; the records already
\* there keep their keys and fields.
C15_CreateFresh ==
  [][ lastEvent'.ev = "connection" =>
        LET c  == lastEvent'.c
            id == ws'[c].sessionId
        IN /\ ~has(sessions, id)
           /\ id \notin GeneratedIds
           /\ has(sessions', id) /\ sessions'[id] = c
           /\ clientSession'[c].id = id
           /\ clientSession'[c].ip = remoteAddress(c)
           /\ Cardinality(DOMAIN sessions') = Cardinality(DOMAIN sessions) + 1
           /\ \A k \in DOMAIN sessions :
                has(sessions', k) /\ sessions'[k] = sessions[k]
           /\ \A o \in DOMAIN clientSession :
                clientSession'[o] = clientSession[o] ]_vars

\* C16: when the key of connection c is no longer in the registry because
\* the error handler of c or the sweep removed it, and the close of c is the
\* next event, handling that close removes nothing and changes no record:
\* the registry is what the first removal left. (The error handler does
\* remove the key.)
C16_SecondRemovalNoOp ==
  [][ \A c \in DOMAIN ws :
        /\ (lastEvent'.ev = "error" /\ lastEvent'.c = c)
             => ~has(sessions', ws'[c].sessionId)
        /\ ( /\ \/ lastEvent.ev = "error" /\ lastEvent.c = c
                \/ lastEvent.ev = "cleanup"
             /\ ~has(sessions, ws[c].sessionId)
             /\ lastEvent'.ev = "close" /\ lastEvent'.c = c )
           => /\ sessions' = sessions
              /\ clientSession' = clientSession
              /\ ws'[c].readyState = "CLOSED" ]_vars

\* a close that finds no session, of a connection whose key was never
\* renamed or shared, another record being in the registry
C16_Witness ==
  /\ lastEvent.ev = "close" /\ lastEvent.type = ""
  /\ ws[lastEvent.c].readyState = "CLOSED"
  /\ ws[lastEvent.c].sessionId = clientSession[lastEvent.c].id
  /\ ws[lastEvent.c].sessionId \notin ClientIds
  /\ \A o \in DOMAIN ws : o # lastEvent.c => ws[o].sessionId # ws[lastEvent.c].sessionId
  /\ DOMAIN sessions # {}

\* the pointer operation of a command
OpOf(type) == CASE type = "move" -> "moveMouse"
                [] type \in {"click", "rightClick"} -> "mouseClick"
                [] type = "scroll" -> "scrollMouse"

\* C17: the pointer operation of a command is called in the handler of
\* the message that carries it, and is finished when the handler returns:
\* after any event, the calls made are exactly the one operation of the
\* command just received (none if the event is no pointer command that is
\* carried out). The operations of a connection's commands are therefore
\* applied in the order of receipt, each before the next command starts.
C17_InOrder ==
  LET carriedOut == /\ robot
                    /\ Handled(PointerTypes)
                    /\ has(sessions, ws[lastEvent.c].sessionId)
  IN /\ carriedOut => /\ Len(robotCalls) = 1
                      /\ robotCalls[1].op = OpOf(lastEvent.type)
                      /\ lastEvent.type = "move" =>
                           robotCalls[1] = moveMouse(mousePos.x, mousePos.y)
     /\ ~carriedOut => robotCalls = <<>>

\* the only connection has sent a move, applied to the pointer, and then a
\* rightClick
C17_Witness ==
  /\ sessionIdCounter = 1
  /\ mousePos # origin.pos
  /\ Handled({"rightClick"})
  /\ robotCalls = <<mouseClick("right")>>

\* every connection is closed and the registry is empty
AllClosed ==
  /\ \A c \in DOMAIN ws : ws[c].readyState = "CLOSED"
  /\ sessions = <<>>

\* C18: once SIGINT has been handled no connection is open any more (each
\* one that was open is closing), and, the close events being delivered,
\* eventually every connection is closed and the registry is empty.
C18_Shutdown ==
  /\ [](closed => \A c \in DOMAIN ws : ws[c].readyState # "OPEN")
  /\ closed ~> AllClosed

\* both connections were there at SIGINT and their closes have been handled
C18_Witness ==
  /\ closed
  /\ DOMAIN ws = Conns
  /\ lastEvent.ev = "close" /\ lastEvent.type = "ended"
  /\ AllClosed

\* C19: the remote address and the connection time of a session record are
\* written when the record is created and never change afterwards, whatever
\* is handled: messages, renames, sweeps, closes, errors, SIGINT.
C19_Immutable ==
  [][ \A o \in DOMAIN clientSession :
        /\ clientSession'[o].ip = clientSession[o].ip
        /\ clientSession'[o].connectedAt = clientSession[o].connectedAt
        /\ clientSession[o].ip = remoteAddress(o) ]_vars

\* a record renamed after the clock has advanced, with its first fields
C19_Witness ==
  /\ Handled({"setSessionId"})
  /\ has(sessions, "client_abcd")
  /\ clientSession[sessions["client_abcd"]].id = "client_abcd"
  /\ clientSession[sessions["client_abcd"]].connectedAt < now
  /\ clientSession[sessions["client_abcd"]].lastActivity = now
  /\ clientSession[sessions["client_abcd"]].ip = remoteAddress(sessions["client_abcd"])

\* C20: handling the close or the error of connection c leaves the session
\* record of every other connection in the registry, under its key and with
\* its fields as they were.
C20_CloseOnlyOwn ==
  [][ lastEvent'.ev \in {"close", "error"} =>
        \A k \in DOMAIN sessions :
          sessions[k] # lastEvent'.c =>
            /\ has(sessions', k)
            /\ sessions'[k] = sessions[k]
            /\ clientSession'[sessions[k]] = clientSession[sessions[k]] ]_vars

\* connection c was closed by the sweep that evicted its record, and its
\* close event is still to come
Evicted(c) ==
  /\ ~closed
  /\ ws[c].readyState = "CLOSING" /\ ws[c].readable
  /\ \A k \in DOMAIN sessions : sessions[k] # c

\* C21: when the sweep has evicted the record of a connection and closed
\* it, the close event of that connection, whatever messages of other
\* connections were handled in between, takes one off the connection count
\* and leaves the registry as it is.
C21_ReaperThenClose ==
  [][ \A c \in DOMAIN ws :
        (Evicted(c) /\ lastEvent'.ev = "close" /\ lastEvent'.c = c)
        => /\ connectedClients' = connectedClients - 1
           /\ sessions' = sessions ]_vars

\* C22: with the capability loaded, a move, click, rightClick or scroll
\* received on an open connection has its pointer operation called, also
\* when the registry has no record under the connection's key; when there
\* is a record its lastActivity is set to the current time.
C22_TouchThenDispatch ==
  [][ ( /\ robot
        /\ lastEvent'.ev = "message" /\ lastEvent'.kind = "object"
        /\ lastEvent'.type \in PointerTypes
        /\ ws[lastEvent'.c].readyState = "OPEN" )
      => /\ Len(robotCalls') = 1
         /\ robotCalls'[1].op = OpOf(lastEvent'.type)
         /\ has(sessions, ws[lastEvent'.c].sessionId)
              => clientSession'[Addressed(lastEvent'.c)].lastActivity = now ]_vars

\* every accepted connection has had its close event handled
AllCloseHandled ==
  /\ DOMAIN ws # {}
  /\ \A c \in DOMAIN ws : ws[c].readyState = "CLOSED"

\* C23: whatever connects, renames (colliding ones too), errors, sweeps and
\* closes came before, when every accepted connection has had its close
\* event handled the registry is empty and the connection count is 0.
C23_NoLeak ==
  AllCloseHandled => (sessions = <<>> /\ connectedClients = 0)

\* both connections closed after a colliding rename: the second close
\* found no session
C23_Witness ==
  /\ AllCloseHandled
  /\ DOMAIN ws = Conns
  /\ ws[1].sessionId = ws[2].sessionId
  /\ lastEvent.ev = "close" /\ lastEvent.type = ""
  /\ ~closed

\* the keys under which the registry holds the record created for o
KeysOf(m, o) == {k \in DOMAIN m : m[k] = o}

\* C24: a rename is one step for every other observer. In every state
\* another handler, a sweep or the session listing can see, no record is
\* under two keys and every record is under the key that is its id; and
\* the state that follows the handling of a setSessionId has the record the
\* connection addressed under exactly one key, never under none.
C24_RenameAtomic ==
  [][ /\ \A o \in DOMAIN clientSession' : Cardinality(KeysOf(sessions', o)) <= 1
      /\ \A k \in DOMAIN sessions' : clientSession'[sessions'[k]].id = k
      /\ \A c \in DOMAIN ws, newId \in ClientIds :
           ( /\ OnMessage(c, SetSessionIdMsg(newId))
             /\ has(sessions, ws[c].sessionId) )
           => Cardinality(KeysOf(sessions', Addressed(c))) = 1 ]_vars

\* connection 1 has renamed its record while connection 2 is registered
C24_Witness ==
  /\ Handled({"setSessionId"}) /\ lastEvent.c = 1
  /\ DOMAIN ws = Conns
  /\ KeysOf(sessions, 1) = {"client_abcd"}
  /\ clientSession[1].id = "client_abcd"
  /\ Cardinality(KeysOf(sessions, 2)) = 1
  /\ ws[1].sessionId = "client_abcd"

\* the messages a connection sends in Spec
SentMsgs == OtherMsgs \cup {MoveMsg(1, -1)}

\* the delta a field carries, 0 when the field is missing
GivenDelta(d) == IF d = <<>> THEN 0 ELSE d[1]

\* the capability calls the dispatch table gives for a message, the
\* pointer being at p on a screen of the given size
TableCalls(data, p, size) ==
  CASE data.type = "move" ->
         <<moveMouse(Clamp(p.x + data.deltaX[1], 0, size.width - 1),
                     Clamp(p.y + data.deltaY[1], 0, size.height - 1))>>
    [] data.type = "click" -> <<mouseClick("left")>>
    [] data.type = "rightClick" -> <<mouseClick("right")>>
    [] data.type = "scroll" ->
         <<scrollMouse(GivenDelta(data.deltaX), GivenDelta(data.deltaY))>>
    [] OTHER -> <<>>

\* C25: with the capability loaded and a record under the connection's
\* key, a message makes exactly the call of its type: move one moveMouse
\* to the clamped position, click one left click, rightClick one right
\* click, scroll one scrollMouse with the deltas as given (0 for a missing
\* one), setSessionId and any other type no call.
C25_DispatchTable ==
  [][ \A c \in DOMAIN ws, data \in SentMsgs :
        ( /\ robot
          /\ data.kind = "object"
          /\ OnMessage(c, data)
          /\ has(sessions, ws[c].sessionId) )
        => robotCalls' = TableCalls(data, mousePos, screenSize) ]_vars

\* a scroll with a negative deltaY and no deltaX
C25_Witness ==
  /\ Handled({"scroll"})
  /\ robotCalls = <<scrollMouse(0, -3)>>
  /\ has(sessions, ws[lastEvent.c].sessionId)

\* C26: an open connection from which no message has been received for
\* longer than SESSION_TIMEOUT is closed by the sweep, whatever renames the
\* other connections made. Connection 2 sends nothing in SpecIdle, so it
\* has been silent since it was accepted: a sweep that runs later than
\* SESSION_TIMEOUT after that does not leave it open.
C26_IdleClosed ==
  ( /\ lastEvent.ev = "cleanup"
    /\ 2 \in DOMAIN ws
    /\ now - clientSession[2].connectedAt > SESSION_TIMEOUT )
  => ws[2].readyState # "OPEN"

\* C27: every record of the registry has the id that is the key it is
\* stored under.
C27_IdIsKey ==
  \A k \in DOMAIN sessions : clientSession[sessions[k]].id = k

\* after two renames, one of them onto the other connection's key
C27_Witness ==
  /\ Handled({"setSessionId"})
  /\ DOMAIN sessions = {"client_abcd"}
  /\ DOMAIN ws = Conns
  /\ ws[1].sessionId # ws[2].sessionId
  /\ \A c \in Conns : ws[c].readyState = "OPEN"

\* the accepted connections whose close event has not been handled
NotClosed == {c \in DOMAIN ws : ws[c].readyState # "CLOSED"}

\* C28: the connection counter is the number of accepted connections whose
\* close event has not been handled yet (so it is not negative, and an
\* error event does not change it), and the registry never has more
\* records than that: activeSessions <= totalConnections.
C28_Counter ==
  /\ connectedClients = Cardinality(NotClosed)
  /\ connectedClients >= 0
  /\ Cardinality(DOMAIN sessions) <= connectedClients

\* connection 1 has had an error and no close yet; connection 2 is closed
C28_Witness ==
  /\ lastEvent.ev = "error" /\ lastEvent.c = 1
  /\ DOMAIN ws = Conns
  /\ ws[2].readyState = "CLOSED"
  /\ connectedClients = 1
  /\ sessions = <<>>

\* C29: handling a move, click, rightClick or scroll adds, removes and
\* re-keys no record of the registry and changes no id; of all the fields
\* of all the records only the lastActivity of the record the sending
\* connection addresses may change.
C29_PointerFrame ==
  [][ ( /\ lastEvent'.ev = "message" /\ lastEvent'.kind = "object"
        /\ lastEvent'.type \in PointerTypes )
      => /\ sessions' = sessions
         /\ ws' = ws
         /\ \A o \in DOMAIN clientSession :
              IF has(sessions, ws[lastEvent'.c].sessionId) /\ o = Addressed(lastEvent'.c)
              THEN clientSession'[o] = [clientSession[o] EXCEPT
                                          !.lastActivity = clientSession'[o].lastActivity]
              ELSE clientSession'[o] = clientSession[o] ]_vars

\* a click of connection 1 after the clock advanced, both records stored
C29_Witness ==
  /\ Handled({"click"}) /\ lastEvent.c = 1
  /\ robotCalls # <<>>
  /\ DOMAIN ws = Conns
  /\ \A c \in Conns : has(sessions, ws[c].sessionId) /\ Addressed(c) = c
  /\ clientSession[1].lastActivity = now
  /\ clientSession[2].lastActivity < now

\* C30: a setSessionId whose sessionId is missing or empty is ignored: the
\* registry keeps its keys and records, the addressed record keeps its id
\* (and address and connection time), the connection keeps its key and its
\* state, no record other than the addressed one changes at all, and no
\* pointer operation is called.
C30_EmptyIdIgnored ==
  [][ \A c \in DOMAIN ws :
        OnMessage(c, SetSessionIdMsg(""))
        => /\ sessions' = sessions
           /\ ws' = ws
           /\ robotCalls' = <<>>
           /\ \A o \in DOMAIN clientSession :
                /\ clientSession'[o].id = clientSession[o].id
                /\ clientSession'[o].ip = clientSession[o].ip
                /\ clientSession'[o].connectedAt = clientSession[o].connectedAt
                /\ ~(has(sessions, ws[c].sessionId) /\ o = Addressed(c))
                     => clientSession'[o] = clientSession[o] ]_vars

\* robotjs loaded, a setSessionId handled on connection 1, which still has
\* its generated key: the sessionId was empty
C30_Witness ==
  /\ robot
  /\ Handled({"setSessionId"}) /\ lastEvent.c = 1
  /\ ws[1].readyState = "OPEN"
  /\ ws[1].sessionId = generateSessionId(1, 0)
  /\ has(sessions, ws[1].sessionId) /\ Addressed(1) = 1
  /\ clientSession[1].id = ws[1].sessionId
  /\ clientSession[1].lastActivity = now
  /\ clientSession[1].connectedAt < now

====
